---- MODULE Spec2Model ----
(***************************************************************************)
(* Store locator client (src/src/client/main.jsx, the App and LeafletMap   *)
(* components of lines 1244-1753): proximity search and view-state         *)
(* reconciliation; and the server that answers its data request            *)
(* (src/unnamed/part_001: the /api/stores route and the catch-all).        *)
(*                                                                         *)
(* Units.  Coordinates are integers in 1e-4 degree (25.0330 -> 250330).    *)
(* Distances and radii are integers in metres (0.1 km -> 100).  Strings    *)
(* are ASCII: "Taipei" stands for DEFAULT_CITY and "Xinyi" for             *)
(* DEFAULT_AREA.                                                           *)
(*                                                                         *)
(* React.  Every action is one event handler (or platform callback)        *)
(* followed by the render it schedules and the effects of that commit.     *)
(* The result-set effect (lines 1641-1653) writes filteredStores with      *)
(* setFilteredStores, which React applies in a further render: while that  *)
(* render is outstanding (queuedResults) the committed state shows the     *)
(* previous filteredStores, and Rerender is the only step that can follow. *)
(***************************************************************************)
EXTENDS Integers, Sequences, FiniteSets, TLC

\* JavaScript null / undefined: an optional value is a sequence of length <= 1
None == <<>>
Some(v) == <<v>>
Val(o) == o[1]

\* ---------------------------------------------------------------- constants

DEFAULT_STATIC_LAT == 250330
DEFAULT_STATIC_LNG == 1215654
DEFAULT_CITY == "Taipei"
DEFAULT_AREA == "Xinyi"
MAX_ZOOM == 18
DEFAULT_STATIC_ZOOM == 17
\* zoom literal 17 of mapCenter (lines 1678 and 1685)
CLOSE_ZOOM == 17
\* scale(1.5) of line 1456, in tenths
COMPASS_SCALE == 15
NO_SCALE == 10
\* useState(0.1) of line 1490, in metres
INITIAL_RADIUS == 100
\* the <option> values of line 1735, in metres
RadiusOptions == {100, 200, 500, 1000, 3000, 5000, 10000, 20000}
\* the options the user picks among in a run
RadiusChoices == {100, 3000}

\* ------------------------------------------------------------------- bounds

\* watchPosition subscriptions that can be active at once, those that
\* suspended startWatchingPosition calls are about to create included
MaxWatches == 2

\* ------------------------------------------------------- fixed-point maths

Scale4 == 10 ^ 4
Scale8 == 10 ^ 8

Abs(n) == IF n < 0 THEN -n ELSE n

\* floor(a * b / Scale4) without leaving 32 bits (a >= 0, 0 <= b <= Scale4)
MulScale4(a, b) == (a \div Scale4) * b + ((a % Scale4) * b) \div Scale4

RECURSIVE SqrtIter(_, _, _)
SqrtIter(n, lo, hi) ==
  IF lo >= hi THEN lo
  ELSE LET mid == (lo + hi + 1) \div 2
       IN IF mid * mid <= n THEN SqrtIter(n, mid, hi) ELSE SqrtIter(n, lo, mid - 1)

\* Math.sqrt on non-negative integers, rounded down
Sqrt(n) == SqrtIter(n, 0, 46340)

\* (d * (Math.PI / 180)) / 2 for d in 1e-4 degree, result in 1e-8 radian
HalfRad8(d) == (Abs(d) * 8727) \div 100

\* Math.sin(x) * Math.sin(x) for x in 1e-8 radian, result in 1e-16:
\* sin x = x - x^3/6 (the cubic term is below 1e-8 for |x| < 4e-4 rad)
SinSq16(x) ==
  LET cubic == (MulScale4(x * x, 1) * x) \div (6 * Scale8)
      s == x - (cubic \div Scale4)
  IN s * s

\* Math.cos(lat * (Math.PI / 180)) for lat in 1e-4 degree, result in 1e-4
Cos4(lat) ==
  LET x == (Abs(lat) * 1745) \div 100000
      x2 == (x * x) \div Scale4
      x4 == (x2 * x2) \div Scale4
      x6 == (x4 * x2) \div Scale4
  IN Scale4 - (x2 \div 2) + (x4 \div 24) - (x6 \div 720)

\* Math.atan2(y, x) in 1e-8 radian for 0 <= y << x (y, x in 1e-8):
\* atan q = q - q^3/3 with q = y / x
Atan2(y, x) ==
  LET q == y + (y * (Scale8 - x)) \div x
      q3 == (MulScale4(q * q, 1) * q) \div (3 * Scale8)
  IN q - (q3 \div Scale4)

\* getDistance with the latitude difference taken northward only (a southward
\* difference counts as none): the distance then depends on the order of the
\* two points
getDistance_NorthwardOnly(lat1, lon1, lat2, lon2) ==
  LET dLat == IF lat2 > lat1 THEN lat2 - lat1 ELSE 0
      dLon == lon2 - lon1
      a == SinSq16(HalfRad8(dLat))
           + MulScale4(SinSq16(HalfRad8(dLon)), (Cos4(lat1) * Cos4(lat2)) \div Scale4)
      sqrtA == Sqrt(a)
      sqrt1mA == Scale8 - (a \div (2 * Scale8))
  IN (12742 * Atan2(sqrtA, sqrt1mA)) \div 100000

\* getDistance: haversine distance in metres between two points
getDistance(lat1, lon1, lat2, lon2) ==
  LET dLat == lat2 - lat1
      dLon == lon2 - lon1
      a == SinSq16(HalfRad8(dLat))
           + MulScale4(SinSq16(HalfRad8(dLon)), (Cos4(lat1) * Cos4(lat2)) \div Scale4)
      sqrtA == Sqrt(a)
      sqrt1mA == Scale8 - (a \div (2 * Scale8))
  IN (12742 * Atan2(sqrtA, sqrt1mA)) \div 100000

\* ----------------------------------------------------------- JS truthiness

\* a number in a boolean context (0 is falsy); a string ("" is falsy)
TruthyNum(v) == v # 0
TruthyStr(v) == v # ""

\* ------------------------------------------------------------ store data

\* One raw store of the fetched JSON.  id "" : no id; lat / lng 0 : the
\* numeric value 0; name "" : no name.
RawStore(id, name, city, area, lat, lng) ==
  [id |-> id, name |-> name, city |-> city, area |-> area, lat |-> lat, lng |-> lng]

\* An element of a data array that is null, and one that is a string: the
\* first has no property to read, the second has none of the properties of
\* a store.
NullEntry == [null |-> TRUE]
ScalarEntry == [scalar |-> "text"]

\* The fetched JSON: a sequence of [key, areas] in key order, areas a
\* sequence of [key, data] with data an optional array of raw stores.
\* <<>> is the empty mapping, and every root the loops find no key in
\* (null, a number, a string).  A region or subregion whose value is null
\* or not an object is a record with its key alone.  A data that is truthy
\* and not an array is NotArray(v): Array.prototype.concat appends such a
\* value as one element.
NotArray(key, v) == [key |-> key, data |-> Some(<<v>>), array |-> FALSE]
IsArrayData(area) == "data" \in DOMAIN area /\ area.data # None /\ "array" \notin DOMAIN area
TaipeiData ==
  << [key |-> "Taipei",
      areas |-> << [key |-> "Xinyi",
                    data |-> Some(<< RawStore("s1", "Claw One", "Taipei", "Xinyi", 250334, 1215654),
                                     RawStore("", "", "Taipei", "Xinyi", 250331, 1215654) >>)],
                   [key |-> "Daan", data |-> None] >>],
     [key |-> "NewTaipei",
      areas |-> << [key |-> "Banqiao",
                    data |-> Some(<< RawStore("", "Claw Two", "NewTaipei", "Banqiao", 250130, 1215504) >>)] >>] >>

\* a body with a null in a data array
NullEntryData ==
  << [key |-> "Taipei",
      areas |-> << [key |-> "Xinyi",
                    data |-> Some(<< RawStore("s1", "Claw One", "Taipei", "Xinyi", 250334, 1215654),
                                     NullEntry >>)] >>] >>

\* the bodies GET /api/stores can answer with
Datasets == {TaipeiData, <<>>, NullEntryData}

RECURSIVE ConcatAreas(_, _)
ConcatAreas(areas, i) ==
  IF i > Len(areas) THEN <<>>
  ELSE (IF "data" \in DOMAIN areas[i] /\ areas[i].data # None
        THEN Val(areas[i].data) ELSE <<>>) \o ConcatAreas(areas, i + 1)

RECURSIVE ConcatCities(_, _)
ConcatCities(nested, i) ==
  IF i > Len(nested) THEN <<>>
  ELSE (IF "areas" \in DOMAIN nested[i] THEN ConcatAreas(nested[i].areas, 1) ELSE <<>>)
       \o ConcatCities(nested, i + 1)

\* the filter callback of flattenStoreData reads s.lat of a null element:
\* the call throws a TypeError
Throws(nestedData) ==
  LET stores == ConcatCities(nestedData, 1)
  IN \E i \in 1..Len(stores) : stores[i] = NullEntry

\* flattenStoreData: concatenate every data array, keep the entries with
\* truthy lat, lng and name, and give each an id
flattenStoreData(nestedData) ==
  LET stores == ConcatCities(nestedData, 1)
      Keep(s) == /\ "lat" \in DOMAIN s
                 /\ TruthyNum(s.lat) /\ TruthyNum(s.lng) /\ TruthyStr(s.name)
      kept == SelectSeq(stores, Keep)
  IN [i \in 1..Len(kept) |->
        [kept[i] EXCEPT !.id = IF TruthyStr(kept[i].id) THEN kept[i].id
                               ELSE kept[i].city \o "-" \o kept[i].area \o "-" \o ToString(i - 1)]]

\* the places a position fix can report, and the headings of a fix
\* (coords.heading) or of a deviceorientation event
FixLocations == {[lat |-> 250346, lng |-> 1215656], [lat |-> 250132, lng |-> 1215504]}
FixHeadings == {None, Some(90)}
CompassHeadings == {None, Some(0)}
Alphas == {None, Some(270)}

\* ------------------------------------------------------- pure derivations

Strip(s) ==
  [id |-> s.id, name |-> s.name, city |-> s.city, area |-> s.area, lat |-> s.lat, lng |-> s.lng]

WithDistance(s, d) ==
  [id |-> s.id, name |-> s.name, city |-> s.city, area |-> s.area, lat |-> s.lat, lng |-> s.lng,
   distance |-> d]

\* an insertion that puts a record before the records at its own distance
RECURSIVE InsertByDistance_BeforeEqual(_, _)
InsertByDistance_BeforeEqual(sorted, s) ==
  IF sorted = <<>> THEN <<s>>
  ELSE IF sorted[Len(sorted)].distance - s.distance < 0 THEN Append(sorted, s)
  ELSE Append(InsertByDistance_BeforeEqual(SubSeq(sorted, 1, Len(sorted) - 1), s),
              sorted[Len(sorted)])

\* Array.prototype.sort((a, b) => a.distance - b.distance): stable insertion
RECURSIVE InsertByDistance(_, _)
InsertByDistance(sorted, s) ==
  IF sorted = <<>> THEN <<s>>
  ELSE IF sorted[Len(sorted)].distance - s.distance <= 0 THEN Append(sorted, s)
  ELSE Append(InsertByDistance(SubSeq(sorted, 1, Len(sorted) - 1), s), sorted[Len(sorted)])

RECURSIVE SortByDistance(_)
SortByDistance(seq) ==
  IF seq = <<>> THEN <<>>
  ELSE InsertByDistance(SortByDistance(SubSeq(seq, 1, Len(seq) - 1)), seq[Len(seq)])

\* the result-set effect: what it hands to setFilteredStores
ResultSet(stores, city, area, location, radius, watching) ==
  IF location # None /\ watching
  THEN LET loc == Val(location)
           withD == [i \in 1..Len(stores) |->
                       WithDistance(stores[i],
                                    getDistance(loc.lat, loc.lng, stores[i].lat, stores[i].lng))]
           InRadius(s) == s.distance <= radius
       IN SortByDistance(SelectSeq(withD, InRadius))
  ELSE LET CityOk(s) == s.city = city
           AreaOk(s) == s.area = area
           r1 == IF TruthyStr(city) THEN SelectSeq(stores, CityOk) ELSE stores
           r2 == IF TruthyStr(area) THEN SelectSeq(r1, AreaOk) ELSE r1
       IN [i \in 1..Len(r2) |-> Strip(r2[i])]

\* the loop of findLocationBasedOnStores with dst <= minDst: the last of the
\* nearest records wins
RECURSIVE NearestFrom_LastWins(_, _, _, _, _)
NearestFrom_LastWins(stores, i, loc, nearest, minDst) ==
  IF i > Len(stores) THEN nearest
  ELSE LET s == stores[i]
           dst == getDistance(loc.lat, loc.lng, s.lat, s.lng)
       IN IF TruthyNum(s.lat) /\ TruthyNum(s.lng) /\ (nearest = None \/ dst <= minDst)
          THEN NearestFrom_LastWins(stores, i + 1, loc, Some(s), dst)
          ELSE NearestFrom_LastWins(stores, i + 1, loc, nearest, minDst)

\* the loop of findLocationBasedOnStores (minDst starts at Infinity)
RECURSIVE NearestFrom(_, _, _, _, _)
NearestFrom(stores, i, loc, nearest, minDst) ==
  IF i > Len(stores) THEN nearest
  ELSE LET s == stores[i]
           dst == getDistance(loc.lat, loc.lng, s.lat, s.lng)
       IN IF TruthyNum(s.lat) /\ TruthyNum(s.lng) /\ (nearest = None \/ dst < minDst)
          THEN NearestFrom(stores, i + 1, loc, Some(s), dst)
          ELSE NearestFrom(stores, i + 1, loc, nearest, minDst)

\* a lookup that answers the fallback pair whatever the stores
findLocationBasedOnStores_Fallback(location, stores) ==
  [city |-> DEFAULT_CITY, area |-> DEFAULT_AREA]

\* findLocationBasedOnStores over the allStores its closure holds
findLocationBasedOnStores(location, stores) ==
  IF location = None \/ Len(stores) = 0
  THEN [city |-> DEFAULT_CITY, area |-> DEFAULT_AREA]
  ELSE LET nearest == NearestFrom(stores, 1, Val(location), None, 0)
       IN IF nearest # None
          THEN [city |-> Val(nearest).city, area |-> Val(nearest).area]
          ELSE [city |-> DEFAULT_CITY, area |-> DEFAULT_AREA]

RECURSIVE SumLat(_)
SumLat(seq) == IF seq = <<>> THEN 0 ELSE seq[1].lat + SumLat(Tail(seq))
RECURSIVE SumLng(_)
SumLng(seq) == IF seq = <<>> THEN 0 ELSE seq[1].lng + SumLng(Tail(seq))

Target(lat, lng, zoom) == [lat |-> lat, lng |-> lng, zoom |-> zoom]

\* mapCenter with the reference point tried before the centroid
mapCenter_ReferenceFirst(mode, location, selected, results) ==
  IF mode \in {"center", "compass"} /\ location # None
  THEN Target(Val(location).lat, Val(location).lng,
              IF mode = "compass" THEN MAX_ZOOM ELSE CLOSE_ZOOM)
  ELSE IF selected # None
  THEN Target(Val(selected).lat, Val(selected).lng, MAX_ZOOM)
  ELSE IF location # None
  THEN Target(Val(location).lat, Val(location).lng, CLOSE_ZOOM)
  ELSE IF Len(results) > 0
  THEN Target(SumLat(results) \div Len(results), SumLng(results) \div Len(results),
              DEFAULT_STATIC_ZOOM)
  ELSE Target(DEFAULT_STATIC_LAT, DEFAULT_STATIC_LNG, DEFAULT_STATIC_ZOOM)

\* the mapCenter memo
mapCenter(mode, location, selected, results) ==
  IF (mode = "center" \/ mode = "compass") /\ location # None
  THEN Target(Val(location).lat, Val(location).lng,
              IF mode = "compass" THEN MAX_ZOOM ELSE CLOSE_ZOOM)
  ELSE IF selected # None
  THEN Target(Val(selected).lat, Val(selected).lng, MAX_ZOOM)
  ELSE IF Len(results) > 0
  THEN Target(SumLat(results) \div Len(results), SumLng(results) \div Len(results),
              DEFAULT_STATIC_ZOOM)
  ELSE IF location # None
  THEN Target(Val(location).lat, Val(location).lng, CLOSE_ZOOM)
  ELSE Target(DEFAULT_STATIC_LAT, DEFAULT_STATIC_LNG, DEFAULT_STATIC_ZOOM)

\* the flyTo effect's target (it runs only when followMode is not compass)
FlyTarget(mode, location, selected, center) ==
  IF selected # None
  THEN Target(Val(selected).lat, Val(selected).lng, MAX_ZOOM)
  ELSE IF mode = "center" /\ location # None
  THEN Target(Val(location).lat, Val(location).lng, MAX_ZOOM)
  ELSE center

\* mapRotation without the change of sign
MapRotation_NotNegated(mode, heading) ==
  IF mode = "compass" /\ heading # None /\ TruthyNum(Val(heading)) THEN Val(heading) ELSE 0

\* mapRotation and mapScale of LeafletMap's render
MapRotation(mode, heading) ==
  IF mode = "compass" /\ heading # None /\ TruthyNum(Val(heading)) THEN 0 - Val(heading) ELSE 0
MapScale(rotation) == IF rotation # 0 THEN COMPASS_SCALE ELSE NO_SCALE

\* handleOrientation's heading from an event
OrientationHeading(compass, alpha) ==
  IF (compass = None \/ ~TruthyNum(Val(compass))) /\ alpha # None /\ TruthyNum(Val(alpha))
  THEN Some(360 - Val(alpha))
  ELSE compass

\* ------------------------------------------------------------------ state

\* ------------------------------------------------------------ HTTP server

\* the requests the server has in hand at one time
MaxRequests == 2

STATUS_OK == 200
STATUS_BAD_REQUEST == 400
STATUS_ERROR == 500

STORES_PATH == "/api/stores"
READ_ERROR == "Failed to read data file"
PARSE_ERROR == "Invalid JSON format"
INDEX_HTML == "index.html"

\* the data file as fs.readFile finds it: unreadable (err is set), or
\* readable with its text
FileUnreadable == [readable |-> FALSE]
FileText(text) == [readable |-> TRUE, text |-> text]
DataFiles ==
  {FileUnreadable, FileText(""), FileText("{"), FileText("null"), FileText("[ ]"),
   FileText("{}")}

\* JSON.parse(text): the value, or nothing when it throws a SyntaxError
ParseJSON(text) ==
  CASE text = "{}" -> Some([object |-> <<>>])
    [] text = "[ ]" -> Some([array |-> <<>>])
    [] text = "null" -> Some([null |-> TRUE])
    [] OTHER -> None

\* JSON.stringify(value), the body res.json sends
Stringify(value) ==
  CASE "object" \in DOMAIN value -> "{}"
    [] "array" \in DOMAIN value -> "[]"
    [] OTHER -> "null"

\* GET requests: the API path, a file of the dist directory, a client-side
\* route; without a body, with a JSON body, with a body that is announced
\* as JSON and does not parse
RequestPaths == {STORES_PATH, "/assets/app.js", "/map"}
RequestBodies == {"none", "json", "malformed"}
DistFiles == {"/assets/app.js"}

\* a request slot: free, or a request at a stage of the middleware chain
\* with the responses sent for it so far
Idle == [stage |-> "idle", path |-> "", body |-> "none", responses |-> <<>>]
Response(status, body, by) == [status |-> status, body |-> body, by |-> by]

VARIABLES
  \* App's useState cells
  allStores, filteredStores, loading, error, selectedStore,
  filterCity, filterArea, userLocation, userHeading, isWatching,
  proximityRadius, followMode,
  \* the filteredStores the result-set effect has handed to
  \* setFilteredStores and React has not rendered yet
  queuedResults,
  \* App's watchIdRef
  watchIdRef,
  \* the platform: navigator.geolocation present, DeviceOrientationEvent
  \* .requestPermission present, the ids of the watches not cleared, the
  \* getCurrentPosition requests not yet answered (each with the isWatching
  \* and allStores its callback closes over), the startWatchingPosition
  \* calls suspended on the permission request, the fetch of loadData
  geoSupported, orientationPermissionApi, activeWatches,
  oneShots, pendingStarts, fetchState,
  \* LeafletMap: isLeafletLoaded (the map instance exists from the same
  \* commit on), the followMode the dragstart listener's onMapDragStart
  \* closed over, the last target given to flyTo / setView, whether the
  \* user has dragged the map since, the transform applied to the container
  isLeafletLoaded, dragFollowMode, camTarget, panned, mapRotation, mapScale,
  \* the server: its request slots, and the data file on its disk
  conns, dataFile

appVars == <<allStores, filteredStores, loading, error, selectedStore,
             filterCity, filterArea, userLocation, userHeading, isWatching,
             proximityRadius, followMode>>
platformVars == <<geoSupported, orientationPermissionApi, activeWatches,
                  oneShots, pendingStarts, fetchState>>
mapVars == <<isLeafletLoaded, dragFollowMode, camTarget, panned, mapRotation, mapScale>>
clientVars == <<appVars, queuedResults, watchIdRef, platformVars, mapVars>>
serverVars == <<conns, dataFile>>
vars == <<clientVars, serverVars>>

\* the getCurrentPosition request of the effect of lines 1619-1639
OneShotRequest(watching, stores) == [isWatching |-> watching, allStores |-> stores]

\* the client after construction
AppInit ==
  /\ allStores = <<>>
  /\ filteredStores = <<>>
  /\ loading = TRUE
  /\ error = ""
  /\ selectedStore = None
  /\ filterCity = DEFAULT_CITY
  /\ filterArea = DEFAULT_AREA
  /\ userLocation = None
  /\ userHeading = None
  /\ isWatching = FALSE
  /\ proximityRadius = INITIAL_RADIUS
  /\ followMode = "none"
  /\ queuedResults = None
  /\ watchIdRef = None
  /\ geoSupported \in BOOLEAN
  /\ orientationPermissionApi \in BOOLEAN
  /\ activeWatches = {}
  /\ oneShots = IF geoSupported THEN <<OneShotRequest(FALSE, <<>>)>> ELSE <<>>
  /\ pendingStarts = 0
  /\ fetchState = "pending"
  /\ isLeafletLoaded = FALSE
  /\ dragFollowMode = "none"
  /\ camTarget = None
  /\ panned = FALSE
  /\ mapRotation = 0
  /\ mapScale = NO_SCALE

\* the server with no request in hand and a well-formed data file
ServerAtRest ==
  /\ conns = [id \in 1..MaxRequests |-> Idle]
  /\ dataFile = FileText("{}")

Init == AppInit /\ ServerAtRest

\* no render is outstanding: React runs the next handler or callback
Flushed == queuedResults = None

\* ----------------------------------------------------------------- commit

\* The commit that follows a handler: LeafletMap's effects, in order, then
\* App's result-set effect when one of its dependencies changed.  A result
\* equal to the rendered filteredStores re-renders to the same state.
\*   locTouched : the handler called setUserLocation (a new object)
\*   loaded     : this commit is the one that initialises the map
\*   imperative : a target the handler gave mapControlRef.flyTo itself
\*   dragged    : whether the user's pan stands when the handler returns
Commit(locTouched, loaded, imperative, dragged) ==
  LET oldCenter == mapCenter(followMode, userLocation, selectedStore, filteredStores)
      newCenter == mapCenter(followMode', userLocation', selectedStore', filteredStores')
      newRotation == MapRotation(followMode', userHeading')
      newScale == MapScale(newRotation)
      flyRuns == /\ isLeafletLoaded'
                 /\ \/ loaded
                    \/ locTouched
                    \/ newCenter # oldCenter
                    \/ followMode' # followMode
                    \/ selectedStore' # selectedStore
      flies == flyRuns /\ followMode' # "compass"
      setsView == /\ isLeafletLoaded'
                  /\ followMode' = "compass" /\ userLocation' # None
                  /\ \/ locTouched
                     \/ newRotation # mapRotation
                     \/ newScale # mapScale
                     \/ followMode' # followMode
      effectRuns == \/ locTouched
                    \/ allStores' # allStores
                    \/ filterCity' # filterCity
                    \/ filterArea' # filterArea
                    \/ userLocation' # userLocation
                    \/ proximityRadius' # proximityRadius
                    \/ isWatching' # isWatching
      results == ResultSet(allStores', filterCity', filterArea', userLocation',
                           proximityRadius', isWatching')
      fromHandler == IF loaded THEN Some(newCenter)
                     ELSE IF imperative # None /\ isLeafletLoaded THEN imperative
                     ELSE camTarget
  IN /\ queuedResults' = IF effectRuns /\ results # filteredStores'
                         THEN Some(results) ELSE None
     /\ mapRotation' = newRotation
     /\ mapScale' = newScale
     /\ camTarget' = IF setsView
                     THEN Some(Target(Val(userLocation').lat, Val(userLocation').lng, MAX_ZOOM))
                     ELSE IF flies
                     THEN Some(FlyTarget(followMode', userLocation', selectedStore', newCenter))
                     ELSE fromHandler
     /\ panned' = IF setsView \/ flies \/ loaded \/ (imperative # None /\ isLeafletLoaded)
                  THEN FALSE ELSE dragged

\* a render for setFilteredStores that reports an empty result as an error
Rerender_ReportsEmpty ==
  /\ queuedResults # None
  /\ filteredStores' = Val(queuedResults)
  /\ error' = IF Val(queuedResults) = <<>> THEN "no stores" ELSE error
  /\ UNCHANGED <<allStores, loading, selectedStore, filterCity, filterArea,
                 userLocation, userHeading, isWatching, proximityRadius, followMode>>
  /\ UNCHANGED <<watchIdRef, platformVars, isLeafletLoaded, dragFollowMode>>
  /\ UNCHANGED serverVars
  /\ Commit(FALSE, FALSE, None, panned)

\* the render React runs for setFilteredStores
Rerender ==
  /\ queuedResults # None
  /\ filteredStores' = Val(queuedResults)
  /\ UNCHANGED <<allStores, loading, error, selectedStore, filterCity, filterArea,
                 userLocation, userHeading, isWatching, proximityRadius, followMode>>
  /\ UNCHANGED <<watchIdRef, platformVars, isLeafletLoaded, dragFollowMode>>
  /\ UNCHANGED serverVars
  /\ Commit(FALSE, FALSE, None, panned)

\* ------------------------------------------------------------- data load

ERR_LOAD == "load failed"
ERR_UNSUPPORTED == "geolocation unsupported"

\* the ways the location side fails: the three codes of a
\* GeolocationPositionError and a browser without navigator.geolocation
WatchErrorKinds == {"PermissionDenied", "PositionUnavailable", "Timeout"}
FailureKinds == WatchErrorKinds \cup {"Unsupported"}

\* what the code that handles a failure passes to setError, if it calls it
LocationMessage(kind) == IF kind = "Unsupported" THEN Some(ERR_UNSUPPORTED) ELSE None

\* a catch branch that reports the failure and leaves the loading flag set
LoadCatch_KeepsLoading ==
  /\ fetchState' = "done"
  /\ error' = ERR_LOAD
  /\ UNCHANGED <<allStores, filteredStores, loading, selectedStore, filterCity, filterArea,
                 userLocation, userHeading, isWatching, proximityRadius, followMode>>
  /\ UNCHANGED <<watchIdRef, geoSupported, orientationPermissionApi, activeWatches, oneShots, pendingStarts, isLeafletLoaded, dragFollowMode>>
  /\ UNCHANGED serverVars
  /\ Commit(FALSE, FALSE, None, panned)

\* loadData's catch branch
LoadCatch ==
  /\ fetchState' = "done"
  /\ error' = ERR_LOAD
  /\ loading' = FALSE
  /\ UNCHANGED <<allStores, filteredStores, selectedStore, filterCity, filterArea,
                 userLocation, userHeading, isWatching, proximityRadius, followMode>>
  /\ UNCHANGED <<watchIdRef, geoSupported, orientationPermissionApi, activeWatches, oneShots, pendingStarts, isLeafletLoaded, dragFollowMode>>
  /\ UNCHANGED serverVars
  /\ Commit(FALSE, FALSE, None, panned)

\* the fetch answers 2xx with a body that parses to raw.  loadData's try
\* branch; the effect of lines 1619-1639 runs again for the new allStores
\* and asks for another position.  A throw of flattenStoreData lands in the
\* catch branch.
FetchResolve(raw) ==
  /\ Flushed
  /\ fetchState = "pending"
  /\ IF Throws(raw)
     THEN LoadCatch
     ELSE /\ fetchState' = "done"
          /\ allStores' = flattenStoreData(raw)
          /\ loading' = FALSE
          /\ oneShots' = IF geoSupported
                         THEN Append(oneShots, OneShotRequest(isWatching, allStores'))
                         ELSE oneShots
          /\ UNCHANGED <<filteredStores, error, selectedStore, filterCity, filterArea,
                         userLocation, userHeading, isWatching, proximityRadius, followMode>>
          /\ UNCHANGED <<watchIdRef, geoSupported, orientationPermissionApi, activeWatches, pendingStarts, isLeafletLoaded, dragFollowMode>>
          /\ UNCHANGED serverVars
          /\ Commit(FALSE, FALSE, None, panned)

\* the ways the fetch fails: fetch() rejects, res.ok is false, res.json()
\* rejects
FetchFailures == {"rejected", "status", "json"}

\* loadData's catch branch after one of them
FetchFail(cause) ==
  /\ Flushed
  /\ fetchState = "pending"
  /\ cause \in FetchFailures
  /\ LoadCatch

\* ------------------------------------------------------------ Leaflet map

\* script.onload (or window.L present at mount): setIsLeafletLoaded(true);
\* the init effect creates the map, setView(mapCenter), and registers the
\* dragstart listener over this render's onMapDragStart
LeafletLoaded ==
  /\ Flushed
  /\ ~isLeafletLoaded
  /\ isLeafletLoaded' = TRUE
  /\ dragFollowMode' = followMode
  /\ UNCHANGED <<appVars, watchIdRef, platformVars>>
  /\ UNCHANGED serverVars
  /\ Commit(FALSE, TRUE, None, FALSE)

\* Leaflet 'dragstart': the listener calls the handleMapDragStart it was
\* registered with
MapDragStart ==
  /\ Flushed
  /\ isLeafletLoaded
  /\ followMode' = IF dragFollowMode # "none" THEN "none" ELSE followMode
  /\ UNCHANGED <<allStores, filteredStores, loading, error, selectedStore, filterCity,
                 filterArea, userLocation, userHeading, isWatching, proximityRadius>>
  /\ UNCHANGED <<watchIdRef, platformVars, isLeafletLoaded, dragFollowMode>>
  /\ UNCHANGED serverVars
  /\ Commit(FALSE, FALSE, None, TRUE)

\* ------------------------------------------------------- position sources

RemoveAt(seq, i) == SubSeq(seq, 1, i - 1) \o SubSeq(seq, i + 1, Len(seq))

HeadingAfter(heading) ==
  IF heading # None /\ TruthyNum(Val(heading)) THEN heading ELSE userHeading

\* success callback of a getCurrentPosition request
OneShotSuccess(i, loc, heading) ==
  /\ Flushed
  /\ i \in 1..Len(oneShots)
  /\ oneShots' = RemoveAt(oneShots, i)
  /\ userLocation' = Some(loc)
  /\ userHeading' = HeadingAfter(heading)
  /\ LET c == oneShots[i]
         found == findLocationBasedOnStores(Some(loc), c.allStores)
     IN IF ~c.isWatching /\ Len(c.allStores) > 0
        THEN /\ filterCity' = found.city
             /\ filterArea' = found.area
             /\ followMode' = "center"
        ELSE UNCHANGED <<filterCity, filterArea, followMode>>
  /\ UNCHANGED <<allStores, filteredStores, loading, error, selectedStore, isWatching,
                 proximityRadius>>
  /\ UNCHANGED <<watchIdRef, geoSupported, orientationPermissionApi, activeWatches, pendingStarts, fetchState, isLeafletLoaded, dragFollowMode>>
  /\ UNCHANGED serverVars
  /\ Commit(TRUE, FALSE, None, panned)

\* error callback of a getCurrentPosition request: console.warn only
OneShotError(i) ==
  /\ Flushed
  /\ i \in 1..Len(oneShots)
  /\ oneShots' = RemoveAt(oneShots, i)
  /\ UNCHANGED <<appVars, queuedResults, watchIdRef, geoSupported,
                 orientationPermissionApi, activeWatches, pendingStarts, fetchState,
                 mapVars, serverVars>>

\* navigator.geolocation.watchPosition returns an id no active watch has
\* (a positive integer)
FreeWatchIds == (1..MaxWatches) \ activeWatches
NewWatchId == CHOOSE id \in FreeWatchIds : \A other \in FreeWatchIds : id <= other

\* startWatchingPosition from its permission request on, without the
\* setSelectedStore(null)
StartBody_KeepsSelection ==
  /\ FreeWatchIds # {}
  /\ filterCity' = ""
  /\ filterArea' = ""
  /\ isWatching' = TRUE
  /\ error' = ""
  /\ followMode' = "center"
  /\ activeWatches' = activeWatches \cup {NewWatchId}
  /\ watchIdRef' = Some(NewWatchId)
  /\ UNCHANGED <<allStores, filteredStores, loading, selectedStore, userLocation,
                 userHeading, proximityRadius>>
  /\ UNCHANGED <<geoSupported, orientationPermissionApi, oneShots, fetchState,
                 isLeafletLoaded, dragFollowMode>>
  /\ UNCHANGED serverVars
  /\ Commit(FALSE, FALSE, None, panned)

\* startWatchingPosition from its permission request on: the state writes
\* of lines 1584-1585 and the watchPosition call
StartBody ==
  /\ FreeWatchIds # {}
  /\ filterCity' = ""
  /\ filterArea' = ""
  /\ selectedStore' = None
  /\ isWatching' = TRUE
  /\ error' = ""
  /\ followMode' = "center"
  /\ activeWatches' = activeWatches \cup {NewWatchId}
  /\ watchIdRef' = Some(NewWatchId)
  /\ UNCHANGED <<allStores, filteredStores, loading, userLocation, userHeading,
                 proximityRadius>>
  /\ UNCHANGED <<geoSupported, orientationPermissionApi, oneShots, fetchState,
                 isLeafletLoaded, dragFollowMode>>
  /\ UNCHANGED serverVars
  /\ Commit(FALSE, FALSE, None, panned)

\* the tracking button while it shows "start": startWatchingPosition up to
\* its first await
StartWatchingPosition ==
  /\ Flushed
  /\ ~isWatching
  /\ IF watchIdRef # None
     THEN UNCHANGED vars
     ELSE IF ~geoSupported
     THEN /\ error' = Val(LocationMessage("Unsupported"))
          /\ UNCHANGED <<allStores, filteredStores, loading, selectedStore, filterCity,
                         filterArea, userLocation, userHeading, isWatching,
                         proximityRadius, followMode>>
          /\ UNCHANGED <<watchIdRef, platformVars, isLeafletLoaded, dragFollowMode>>
          /\ UNCHANGED serverVars
          /\ Commit(FALSE, FALSE, None, panned)
     ELSE IF orientationPermissionApi
     THEN /\ pendingStarts < Cardinality(FreeWatchIds)
          /\ pendingStarts' = pendingStarts + 1
          /\ UNCHANGED <<appVars, queuedResults, watchIdRef, geoSupported,
                         orientationPermissionApi, activeWatches, oneShots, fetchState,
                         mapVars, serverVars>>
     ELSE /\ pendingStarts' = pendingStarts
          /\ StartBody

\* DeviceOrientationEvent.requestPermission() settles and a suspended
\* startWatchingPosition goes on
ResumeStart ==
  /\ Flushed
  /\ pendingStarts > 0
  /\ pendingStarts' = pendingStarts - 1
  /\ StartBody

\* a watch success callback that also re-locks the camera on the reference
\* point
WatchFix_Relocks(id, loc, heading) ==
  /\ Flushed
  /\ id \in activeWatches
  /\ userLocation' = Some(loc)
  /\ userHeading' = HeadingAfter(heading)
  /\ followMode' = "center"
  /\ UNCHANGED <<allStores, filteredStores, loading, error, selectedStore, filterCity,
                 filterArea, isWatching, proximityRadius>>
  /\ UNCHANGED <<watchIdRef, platformVars, isLeafletLoaded, dragFollowMode>>
  /\ UNCHANGED serverVars
  /\ Commit(TRUE, FALSE, None, panned)

\* success callback of a watchPosition subscription
WatchFix(id, loc, heading) ==
  /\ Flushed
  /\ id \in activeWatches
  /\ userLocation' = Some(loc)
  /\ userHeading' = HeadingAfter(heading)
  /\ UNCHANGED <<allStores, filteredStores, loading, error, selectedStore, filterCity,
                 filterArea, isWatching, proximityRadius, followMode>>
  /\ UNCHANGED <<watchIdRef, platformVars, isLeafletLoaded, dragFollowMode>>
  /\ UNCHANGED serverVars
  /\ Commit(TRUE, FALSE, None, panned)

\* error callback of a watchPosition subscription, for an err of one kind
\* (err.code 1, 2 or 3); err goes to console.error only
WatchError(id, kind) ==
  /\ Flushed
  /\ id \in activeWatches
  /\ kind \in WatchErrorKinds
  /\ error' = IF LocationMessage(kind) # None THEN Val(LocationMessage(kind)) ELSE error
  /\ IF watchIdRef # None /\ TruthyNum(Val(watchIdRef))
     THEN /\ activeWatches' = activeWatches \ {Val(watchIdRef)}
          /\ watchIdRef' = None
     ELSE UNCHANGED <<activeWatches, watchIdRef>>
  /\ isWatching' = FALSE
  /\ followMode' = "none"
  /\ filterCity' = DEFAULT_CITY
  /\ filterArea' = DEFAULT_AREA
  /\ UNCHANGED <<allStores, filteredStores, loading, selectedStore, userLocation,
                 userHeading, proximityRadius>>
  /\ UNCHANGED <<geoSupported, orientationPermissionApi, oneShots,
                 pendingStarts, fetchState, isLeafletLoaded, dragFollowMode>>
  /\ UNCHANGED serverVars
  /\ Commit(FALSE, FALSE, None, panned)

\* stopWatchingPosition with setFollowMode('center') on both branches
StopWatchingPosition_AlwaysLocks ==
  /\ Flushed
  /\ isWatching
  /\ IF watchIdRef # None
     THEN /\ activeWatches' = activeWatches \ {Val(watchIdRef)}
          /\ watchIdRef' = None
     ELSE UNCHANGED <<activeWatches, watchIdRef>>
  /\ isWatching' = FALSE
  /\ LET found == findLocationBasedOnStores(userLocation, allStores)
     IN /\ filterCity' = found.city
        /\ filterArea' = found.area
  /\ selectedStore' = None
  /\ followMode' = "center"
  /\ UNCHANGED <<allStores, filteredStores, loading, error, userLocation, userHeading,
                 proximityRadius>>
  /\ UNCHANGED <<geoSupported, orientationPermissionApi, oneShots,
                 pendingStarts, fetchState, isLeafletLoaded, dragFollowMode>>
  /\ UNCHANGED serverVars
  /\ Commit(FALSE, FALSE, None, panned)

\* the tracking button while it shows "stop"
StopWatchingPosition ==
  /\ Flushed
  /\ isWatching
  /\ IF watchIdRef # None
     THEN /\ activeWatches' = activeWatches \ {Val(watchIdRef)}
          /\ watchIdRef' = None
     ELSE UNCHANGED <<activeWatches, watchIdRef>>
  /\ isWatching' = FALSE
  /\ LET found == findLocationBasedOnStores(userLocation, allStores)
     IN /\ filterCity' = found.city
        /\ filterArea' = found.area
  /\ selectedStore' = None
  /\ followMode' = IF userLocation # None THEN "center" ELSE "none"
  /\ UNCHANGED <<allStores, filteredStores, loading, error, userLocation, userHeading,
                 proximityRadius>>
  /\ UNCHANGED <<geoSupported, orientationPermissionApi, oneShots,
                 pendingStarts, fetchState, isLeafletLoaded, dragFollowMode>>
  /\ UNCHANGED serverVars
  /\ Commit(FALSE, FALSE, None, panned)

\* a deviceorientation event reaches handleOrientation
Orientation(compass, alpha) ==
  /\ Flushed
  /\ LET heading == OrientationHeading(compass, alpha)
     IN userHeading' = IF heading # None THEN heading ELSE userHeading
  /\ UNCHANGED <<allStores, filteredStores, loading, error, selectedStore, filterCity,
                 filterArea, userLocation, isWatching, proximityRadius, followMode>>
  /\ UNCHANGED <<watchIdRef, platformVars, isLeafletLoaded, dragFollowMode>>
  /\ UNCHANGED serverVars
  /\ Commit(FALSE, FALSE, None, panned)

\* ---------------------------------------------------------- user handlers

\* the options of the two <select>s (cities and areas memos)
Cities == {allStores[i].city : i \in 1..Len(allStores)} \ {""}
Areas ==
  IF ~TruthyStr(filterCity) THEN {}
  ELSE {allStores[i].area : i \in {j \in 1..Len(allStores) : allStores[j].city = filterCity}}
       \ {""}

\* the recenter button (rendered when userLocation is known)
HandleRecenter ==
  /\ Flushed
  /\ userLocation # None
  /\ followMode' = "center"
  /\ selectedStore' = None
  /\ UNCHANGED <<allStores, filteredStores, loading, error, filterCity, filterArea,
                 userLocation, userHeading, isWatching, proximityRadius>>
  /\ UNCHANGED <<watchIdRef, platformVars, isLeafletLoaded, dragFollowMode>>
  /\ UNCHANGED serverVars
  /\ Commit(FALSE, FALSE,
            Some(Target(Val(userLocation).lat, Val(userLocation).lng, DEFAULT_STATIC_ZOOM)),
            panned)

\* handleCityChange without its setFilterArea('')
HandleCityChange_KeepsArea(city) ==
  /\ Flushed
  /\ ~isWatching
  /\ city \in Cities \cup {""}
  /\ filterCity' = city
  /\ followMode' = "none"
  /\ UNCHANGED <<allStores, filteredStores, loading, error, selectedStore, filterArea,
                 userLocation, userHeading, isWatching, proximityRadius>>
  /\ UNCHANGED <<watchIdRef, platformVars, isLeafletLoaded, dragFollowMode>>
  /\ UNCHANGED serverVars
  /\ Commit(FALSE, FALSE, None, panned)

\* the city <select> (disabled while isWatching)
HandleCityChange(city) ==
  /\ Flushed
  /\ ~isWatching
  /\ city \in Cities \cup {""}
  /\ filterCity' = city
  /\ filterArea' = ""
  /\ followMode' = "none"
  /\ UNCHANGED <<allStores, filteredStores, loading, error, selectedStore, userLocation,
                 userHeading, isWatching, proximityRadius>>
  /\ UNCHANGED <<watchIdRef, platformVars, isLeafletLoaded, dragFollowMode>>
  /\ UNCHANGED serverVars
  /\ Commit(FALSE, FALSE, None, panned)

\* the area <select> (rendered when filterCity is set, disabled while isWatching)
HandleAreaChange(area) ==
  /\ Flushed
  /\ ~isWatching
  /\ TruthyStr(filterCity)
  /\ area \in Areas \cup {""}
  /\ filterArea' = area
  /\ followMode' = "none"
  /\ UNCHANGED <<allStores, filteredStores, loading, error, selectedStore, filterCity,
                 userLocation, userHeading, isWatching, proximityRadius>>
  /\ UNCHANGED <<watchIdRef, platformVars, isLeafletLoaded, dragFollowMode>>
  /\ UNCHANGED serverVars
  /\ Commit(FALSE, FALSE, None, panned)

\* handleStoreSelect without its setFollowMode('none')
HandleStoreSelect_KeepsLock(i) ==
  /\ Flushed
  /\ i \in 1..Len(filteredStores)
  /\ selectedStore' = Some(filteredStores[i])
  /\ UNCHANGED <<allStores, filteredStores, loading, error, filterCity, filterArea,
                 userLocation, userHeading, isWatching, proximityRadius, followMode>>
  /\ UNCHANGED <<watchIdRef, platformVars, isLeafletLoaded, dragFollowMode>>
  /\ UNCHANGED serverVars
  /\ Commit(FALSE, FALSE, None, panned)

\* a click on a list row (handleStoreSelect) or on a marker (onStoreSelect)
HandleStoreSelect(i) ==
  /\ Flushed
  /\ i \in 1..Len(filteredStores)
  /\ selectedStore' = Some(filteredStores[i])
  /\ followMode' = "none"
  /\ UNCHANGED <<allStores, filteredStores, loading, error, filterCity, filterArea,
                 userLocation, userHeading, isWatching, proximityRadius>>
  /\ UNCHANGED <<watchIdRef, platformVars, isLeafletLoaded, dragFollowMode>>
  /\ UNCHANGED serverVars
  /\ Commit(FALSE, FALSE, None, panned)

\* handleModeToggle leaving 'compass' for 'none'
HandleModeToggle_CompassToFree ==
  /\ Flushed
  /\ userLocation # None
  /\ followMode' = CASE followMode = "none" -> "center"
                     [] followMode = "center" -> "compass"
                     [] followMode = "compass" -> "none"
  /\ selectedStore' = IF followMode = "none" THEN None ELSE selectedStore
  /\ UNCHANGED <<allStores, filteredStores, loading, error, filterCity, filterArea,
                 userLocation, userHeading, isWatching, proximityRadius>>
  /\ UNCHANGED <<watchIdRef, platformVars, isLeafletLoaded, dragFollowMode>>
  /\ UNCHANGED serverVars
  /\ Commit(FALSE, FALSE,
            IF followMode = "none"
            THEN Some(Target(Val(userLocation).lat, Val(userLocation).lng,
                             DEFAULT_STATIC_ZOOM))
            ELSE None,
            panned)

\* the follow / compass button rendered also while the camera is locked and
\* no reference point is known
HandleModeToggle_ShownWhileLocked ==
  /\ Flushed
  /\ (userLocation # None \/ followMode # "none")
  /\ followMode' = CASE followMode = "none" -> "center"
                     [] followMode = "center" -> "compass"
                     [] followMode = "compass" -> "center"
  /\ selectedStore' = IF followMode = "none" THEN None ELSE selectedStore
  /\ UNCHANGED <<allStores, filteredStores, loading, error, filterCity, filterArea,
                 userLocation, userHeading, isWatching, proximityRadius>>
  /\ UNCHANGED <<watchIdRef, platformVars, isLeafletLoaded, dragFollowMode>>
  /\ UNCHANGED serverVars
  /\ Commit(FALSE, FALSE,
            IF followMode = "none"
            THEN Some(Target(Val(userLocation).lat, Val(userLocation).lng,
                             DEFAULT_STATIC_ZOOM))
            ELSE None,
            panned)

\* the follow / compass button.  It is rendered only when userLocation is
\* known, so the branch of line 1663 that starts tracking is never taken.
HandleModeToggle ==
  /\ Flushed
  /\ userLocation # None
  /\ followMode' = CASE followMode = "none" -> "center"
                     [] followMode = "center" -> "compass"
                     [] followMode = "compass" -> "center"
  /\ selectedStore' = IF followMode = "none" THEN None ELSE selectedStore
  /\ UNCHANGED <<allStores, filteredStores, loading, error, filterCity, filterArea,
                 userLocation, userHeading, isWatching, proximityRadius>>
  /\ UNCHANGED <<watchIdRef, platformVars, isLeafletLoaded, dragFollowMode>>
  /\ UNCHANGED serverVars
  /\ Commit(FALSE, FALSE,
            IF followMode = "none"
            THEN Some(Target(Val(userLocation).lat, Val(userLocation).lng,
                             DEFAULT_STATIC_ZOOM))
            ELSE None,
            panned)

\* the radius <select> (rendered when isWatching and userLocation is known)
RadiusChange(radius) ==
  /\ Flushed
  /\ isWatching /\ userLocation # None
  /\ radius \in RadiusOptions
  /\ radius \in RadiusChoices
  /\ proximityRadius' = radius
  /\ UNCHANGED <<allStores, filteredStores, loading, error, selectedStore, filterCity,
                 filterArea, userLocation, userHeading, isWatching, followMode>>
  /\ UNCHANGED <<watchIdRef, platformVars, isLeafletLoaded, dragFollowMode>>
  /\ UNCHANGED serverVars
  /\ Commit(FALSE, FALSE, None, panned)

\* ------------------------------------------------------------ specification

Next ==
  \/ Rerender
  \/ \E raw \in Datasets : FetchResolve(raw)
  \/ \E cause \in FetchFailures : FetchFail(cause)
  \/ LeafletLoaded
  \/ MapDragStart
  \/ \E i \in 1..Len(oneShots), loc \in FixLocations, h \in FixHeadings :
       OneShotSuccess(i, loc, h)
  \/ \E i \in 1..Len(oneShots) : OneShotError(i)
  \/ StartWatchingPosition
  \/ ResumeStart
  \/ \E id \in activeWatches, loc \in FixLocations, h \in FixHeadings : WatchFix(id, loc, h)
  \/ \E id \in activeWatches, kind \in WatchErrorKinds : WatchError(id, kind)
  \/ StopWatchingPosition
  \/ \E c \in CompassHeadings, a \in Alphas : Orientation(c, a)
  \/ HandleRecenter
  \/ \E city \in Cities \cup {""} : HandleCityChange(city)
  \/ \E area \in Areas \cup {""} : HandleAreaChange(area)
  \/ \E i \in 1..Len(filteredStores) : HandleStoreSelect(i)
  \/ HandleModeToggle
  \/ \E r \in RadiusChoices : RadiusChange(r)

Spec == Init /\ [][Next]_vars

\* ------------------------------------------- the derivations on their own

\* Normalizer outputs for the two pure derivations: records at the same
\* coordinates (NearA, NearB), a record a little farther from the first fix
\* location (NearC) and a record next to the second (FarD)
MaxStores == 3
NearA == RawStore("a", "Claw A", "Taipei", "Xinyi", 250334, 1215654)
NearB == RawStore("b", "Claw B", "NewTaipei", "Banqiao", 250334, 1215654)
NearC == RawStore("c", "Claw C", "Taipei", "Daan", 250326, 1215654)
FarD == RawStore("d", "Claw D", "Keelung", "Renai", 250130, 1215504)
StorePool == {NearA, NearB, NearC, FarD}

Distinct(seq) == \A i, j \in 1..Len(seq) : i # j => seq[i] # seq[j]
StoreLists ==
  UNION {{seq \in [1..n -> StorePool] : Distinct(seq)} : n \in 0..MaxStores}

DeriveInit ==
  /\ allStores \in StoreLists
  /\ userLocation \in {None} \cup {Some(l) : l \in FixLocations}
  /\ proximityRadius \in RadiusChoices
  /\ isWatching \in BOOLEAN
  /\ filteredStores = <<>>
  /\ loading = FALSE
  /\ error = ""
  /\ selectedStore = None
  /\ filterCity = DEFAULT_CITY
  /\ filterArea = DEFAULT_AREA
  /\ userHeading = None
  /\ followMode = "none"
  /\ queuedResults = None
  /\ watchIdRef = None
  /\ geoSupported = TRUE
  /\ orientationPermissionApi = FALSE
  /\ activeWatches = {}
  /\ oneShots = <<>>
  /\ pendingStarts = 0
  /\ fetchState = "done"
  /\ isLeafletLoaded = FALSE
  /\ dragFollowMode = "none"
  /\ camTarget = None
  /\ panned = FALSE
  /\ mapRotation = 0
  /\ mapScale = NO_SCALE
  /\ ServerAtRest

\* the body of the result-set effect, applied to the current inputs
Derive ==
  /\ filteredStores' = ResultSet(allStores, filterCity, filterArea, userLocation,
                                 proximityRadius, isWatching)
  /\ UNCHANGED <<allStores, loading, error, selectedStore, filterCity, filterArea,
                 userLocation, userHeading, isWatching, proximityRadius, followMode>>
  /\ UNCHANGED <<queuedResults, watchIdRef, platformVars, mapVars, serverVars>>

\* findLocationBasedOnStores(userLocation), its pair written to the filters
\* as stopWatchingPosition writes it
Lookup ==
  /\ LET found == findLocationBasedOnStores(userLocation, allStores)
     IN /\ filterCity' = found.city
        /\ filterArea' = found.area
  /\ UNCHANGED <<allStores, filteredStores, loading, error, selectedStore, userLocation,
                 userHeading, isWatching, proximityRadius, followMode>>
  /\ UNCHANGED <<queuedResults, watchIdRef, platformVars, mapVars, serverVars>>

DeriveNext ==
  \/ Derive
  \/ Lookup

DeriveSpec == DeriveInit /\ [][DeriveNext]_vars

\* ------------------------------------------- the normalizer on its own

\* Raw entries of a data array: two with the same explicit id, one without
\* id, one whose explicit id is the fallback id of the second place, one
\* with the numeric lat 0, one without name, a null and a string
MaxEntries == 2
EntryOne == RawStore("s1", "Claw One", "Taipei", "Xinyi", 250334, 1215654)
EntrySameId == RawStore("s1", "Claw Again", "Taipei", "Xinyi", 250336, 1215654)
EntryNoId == RawStore("", "Claw NoId", "Taipei", "Xinyi", 250338, 1215654)
EntryFallbackId == RawStore("Taipei-Xinyi-1", "Claw Named", "Taipei", "Xinyi", 250340, 1215654)
EntryLatZero == RawStore("s5", "Claw Equator", "Taipei", "Xinyi", 0, 1215654)
EntryNoName == RawStore("s6", "", "Taipei", "Xinyi", 250342, 1215654)
EntryPool == {EntryOne, EntrySameId, EntryNoId, EntryFallbackId, EntryLatZero, EntryNoName,
              NullEntry, ScalarEntry}

DataArrays == UNION {[1..n -> EntryPool] : n \in 0..MaxEntries}

\* the subregion of a body: data an array, data missing, data a truthy value
\* that is not an array (an object or a string), no object at all
XinyiAreas ==
  {[key |-> "Xinyi", data |-> Some(arr)] : arr \in DataArrays}
    \cup {[key |-> "Xinyi", data |-> None], [key |-> "Xinyi"]}
    \cup {NotArray("Xinyi", v) : v \in EntryPool \ {NullEntry}}

\* the bodies given to the normalizer: one region with one subregion, and a
\* region that is null or not an object before it
NormBodies ==
  {<< [key |-> "Taipei", areas |-> <<area>>] >> : area \in XinyiAreas}
    \cup {<< [key |-> "Keelung"], [key |-> "Taipei", areas |-> <<area>>] >> :
            area \in {[key |-> "Xinyi", data |-> Some(<<EntryOne>>)], [key |-> "Xinyi"]}}

NormNext ==
  \/ \E raw \in NormBodies : FetchResolve(raw)
  \/ Rerender

NormSpec == Init /\ [][NormNext]_vars

\* ----------------------------------------------------- the server's routes

FreeSlots == {id \in 1..MaxRequests : conns[id].stage = "idle"}

\* the request in slot id moves to a stage, with a response added if one is
\* sent
Advance(id, stage, sent) ==
  conns' = [conns EXCEPT ![id] = [@ EXCEPT !.stage = stage,
                                           !.responses = @ \o sent]]

\* a GET request arrives.  cors() sets its header and passes the request on.
Request(id, path, body) ==
  /\ id \in FreeSlots
  /\ conns' = [conns EXCEPT ![id] = [stage |-> "json", path |-> path, body |-> body,
                                     responses |-> <<>>]]
  /\ UNCHANGED <<clientVars, dataFile>>

\* express.json(): a body announced as JSON that does not parse is answered
\* 400 by the error handler; every other request is passed on
JsonBodyParser(id) ==
  /\ conns[id].stage = "json"
  /\ IF conns[id].body = "malformed"
     THEN Advance(id, "done", <<Response(STATUS_BAD_REQUEST, "Bad Request", "json")>>)
     ELSE Advance(id, "static", <<>>)
  /\ UNCHANGED <<clientVars, dataFile>>

\* express.static(distPath): a path that names a file of dist is answered
\* with the file; every other request is passed on
Static(id) ==
  /\ conns[id].stage = "static"
  /\ IF conns[id].path \in DistFiles
     THEN Advance(id, "done", <<Response(STATUS_OK, conns[id].path, "static")>>)
     ELSE Advance(id, "route", <<>>)
  /\ UNCHANGED <<clientVars, dataFile>>

\* app.get("/api/stores"): the handler starts fs.readFile and returns
StoresHandler(id) ==
  /\ conns[id].stage = "route"
  /\ conns[id].path = STORES_PATH
  /\ Advance(id, "reading", <<>>)
  /\ UNCHANGED <<clientVars, dataFile>>

\* a callback whose err branch sends its response and does not return: the
\* parse of the missing data then fails and sends a second response
ReadFileReplies_NoReturn(file) ==
  IF ~file.readable
  THEN <<Response(STATUS_ERROR, READ_ERROR, "stores"),
         Response(STATUS_ERROR, PARSE_ERROR, "stores")>>
  ELSE IF ParseJSON(file.text) = None
  THEN <<Response(STATUS_ERROR, PARSE_ERROR, "stores")>>
  ELSE <<Response(STATUS_OK, Stringify(Val(ParseJSON(file.text))), "stores")>>

\* what the callback of fs.readFile sends for a data file: the err branch
\* returns after its response
ReadFileReplies(file) ==
  IF ~file.readable
  THEN <<Response(STATUS_ERROR, READ_ERROR, "stores")>>
  ELSE IF ParseJSON(file.text) = None
  THEN <<Response(STATUS_ERROR, PARSE_ERROR, "stores")>>
  ELSE <<Response(STATUS_OK, Stringify(Val(ParseJSON(file.text))), "stores")>>

\* the callback of fs.readFile
ReadFileCallback(id) ==
  /\ conns[id].stage = "reading"
  /\ Advance(id, "done", ReadFileReplies(dataFile))
  /\ UNCHANGED <<clientVars, dataFile>>

\* app.get("*"): every GET no earlier route took is answered with index.html
CatchAll(id) ==
  /\ conns[id].stage = "route"
  /\ conns[id].path # STORES_PATH
  /\ Advance(id, "done", <<Response(STATUS_OK, INDEX_HTML, "catchAll")>>)
  /\ UNCHANGED <<clientVars, dataFile>>

\* the response has gone out and the request is forgotten
Finish(id) ==
  /\ conns[id].stage = "done"
  /\ conns' = [conns EXCEPT ![id] = Idle]
  /\ UNCHANGED <<clientVars, dataFile>>

ServerInit ==
  /\ AppInit
  /\ conns = [id \in 1..MaxRequests |-> Idle]
  /\ dataFile \in DataFiles

ServerNext ==
  \/ \E id \in 1..MaxRequests, path \in RequestPaths, body \in RequestBodies :
       Request(id, path, body)
  \/ \E id \in 1..MaxRequests : JsonBodyParser(id)
  \/ \E id \in 1..MaxRequests : Static(id)
  \/ \E id \in 1..MaxRequests : StoresHandler(id)
  \/ \E id \in 1..MaxRequests : ReadFileCallback(id)
  \/ \E id \in 1..MaxRequests : CatchAll(id)
  \/ \E id \in 1..MaxRequests : Finish(id)

ServerSpec == ServerInit /\ [][ServerNext]_vars

\* ------------------------------------------------------------------ claims

\* the rendered result set is not the one the current inputs derive
Stale ==
  filteredStores # ResultSet(allStores, filterCity, filterArea, userLocation,
                             proximityRadius, isWatching)

\* the guards of WatchFix and OneShotSuccess: a position callback can run
PositionCallbackCanRun == activeWatches # {} \/ Len(oneShots) > 0

\* a position callback runs (a watch fix or a one-shot answer)
PositionCallback ==
  \/ \E id \in activeWatches, loc \in FixLocations, h \in FixHeadings : WatchFix(id, loc, h)
  \/ \E i \in 1..Len(oneShots), loc \in FixLocations, h \in FixHeadings :
       OneShotSuccess(i, loc, h)

HasDistance(s) == "distance" \in DOMAIN s

\* C1: a map drag while camera-lock is LockedOnReference or CompassFollow
\* leaves camera-lock Free.
C1_DragFreesCamera ==
  [][(MapDragStart /\ followMode \in {"center", "compass"}) => followMode' = "none"]_vars

\* C2: once camera-lock is Free after a manual drag (the user's pan stands),
\* a watch fix or a one-shot position answer neither changes camera-lock
\* nor moves the camera.
C2_CallbacksKeepUserPan ==
  [][(panned /\ followMode = "none" /\ PositionCallback)
       => (followMode' = "none" /\ panned')]_vars

\* C3: at most one geolocation watch is active at any moment.
C3_AtMostOneWatch == Cardinality(activeWatches) <= 1

\* C4: when stopWatchingPosition returns, nothing is left that can call
\* back with a position: no active watch and no unanswered one-shot request.
C4_StopSilencesCallbacks ==
  [][StopWatchingPosition => ~PositionCallbackCanRun']_vars

\* C5: whenever a store is selected (and the map exists), the target last
\* given to the map is the selected store at MAX_ZOOM, in every camera-lock
\* state.
C5_SelectedStoreIsTarget ==
  (isLeafletLoaded /\ selectedStore # None)
    => camTarget = Some(Target(Val(selectedStore).lat, Val(selectedStore).lng, MAX_ZOOM))

\* the arithmetic mean of the result-set coordinates
CentroidLat == SumLat(filteredStores) \div Len(filteredStores)
CentroidLng == SumLng(filteredStores) \div Len(filteredStores)

C6_Case ==
  /\ isLeafletLoaded
  /\ selectedStore = None
  /\ followMode = "none"
  /\ ~isWatching
  /\ Len(filteredStores) > 0
  /\ userLocation # None

\* C6: no store selected, camera-lock Free, Static mode, a non-empty result
\* set and a known reference point: the camera target is the centroid of
\* the result set.
C6_CentroidBeforeReference ==
  C6_Case => /\ camTarget # None
             /\ Val(camTarget).lat = CentroidLat
             /\ Val(camTarget).lng = CentroidLng

\* C6 witness: the case, with the centroid away from the reference point
C6_Witness ==
  /\ C6_Case
  /\ camTarget # None
  /\ <<CentroidLat, CentroidLng>> # <<Val(userLocation).lat, Val(userLocation).lng>>
  /\ Val(camTarget).lat = CentroidLat

C7_Case ==
  /\ isLeafletLoaded
  /\ selectedStore = None
  /\ followMode \in {"center", "compass"}
  /\ userLocation # None

\* C7: no store selected, camera locked and the reference point known: the
\* camera target is the reference point, at MAX_ZOOM when tracking and at
\* the close preset (17) when not.
C7_LockedTargetAndZoom ==
  C7_Case => camTarget = Some(Target(Val(userLocation).lat, Val(userLocation).lng,
                                     IF isWatching THEN MAX_ZOOM ELSE CLOSE_ZOOM))

HeadingKnown == userHeading # None

\* C8 as claimed: rotation is minus the heading and the scale is 1.5
\* exactly when camera-lock is CompassFollow with a known heading;
\* otherwise rotation 0 and scale 1.
C8_ScaleWheneverHeadingKnown ==
  IF followMode = "compass" /\ HeadingKnown
  THEN mapRotation = 0 - Val(userHeading) /\ mapScale = COMPASS_SCALE
  ELSE mapRotation = 0 /\ mapScale = NO_SCALE

\* C8 amended: rotation is minus the heading when camera-lock is
\* CompassFollow with a known heading and 0 otherwise; the scale is 1.5
\* exactly when that rotation is not 0 (a known heading other than 0).
C8_RotationAndScale ==
  /\ mapRotation = IF followMode = "compass" /\ HeadingKnown THEN 0 - Val(userHeading) ELSE 0
  /\ mapScale = IF followMode = "compass" /\ HeadingKnown /\ Val(userHeading) # 0
                THEN COMPASS_SCALE ELSE NO_SCALE

C8_Witness ==
  /\ followMode = "compass"
  /\ userHeading = Some(90)
  /\ mapRotation = 0 - 90
  /\ mapScale = COMPASS_SCALE

\* C9: while isWatching is false no record of filteredStores carries a
\* distance.
C9_StaticHasNoDistance ==
  ~isWatching => \A i \in 1..Len(filteredStores) : ~HasDistance(filteredStores[i])

\* the stores within proximityRadius of the reference point
InRadius(s) ==
  /\ userLocation # None
  /\ getDistance(Val(userLocation).lat, Val(userLocation).lng, s.lat, s.lng) <= proximityRadius

\* C10: while isWatching is true the result set is exactly the stores within
\* proximityRadius of the reference point, each carrying its distance.
C10_LiveResultIsRadiusSet ==
  isWatching =>
    /\ \A i \in 1..Len(filteredStores) :
         /\ HasDistance(filteredStores[i])
         /\ InRadius(filteredStores[i])
         /\ filteredStores[i].distance
              = getDistance(Val(userLocation).lat, Val(userLocation).lng,
                            filteredStores[i].lat, filteredStores[i].lng)
    /\ \A j \in 1..Len(allStores) :
         InRadius(allStores[j])
           => \E i \in 1..Len(filteredStores) : filteredStores[i].id = allStores[j].id

\* the place of a record of the result set in the normalizer output
PosIn(stores, id) == CHOOSE k \in 1..Len(stores) : stores[k].id = id

\* the result set was derived in the Live branch
LiveDerived ==
  /\ isWatching /\ userLocation # None
  /\ \A i \in 1..Len(filteredStores) : HasDistance(filteredStores[i])

\* C11: a result sequence derived in Live mode is non-decreasing in
\* distance, and two records at the same distance keep the relative order
\* they have in the normalizer output (allStores).
C11_SortedStable ==
  LiveDerived =>
    \A i, j \in 1..Len(filteredStores) :
      i < j => /\ filteredStores[i].distance <= filteredStores[j].distance
               /\ filteredStores[i].distance = filteredStores[j].distance
                    => PosIn(allStores, filteredStores[i].id)
                         < PosIn(allStores, filteredStores[j].id)

\* C11 witness: a Live result with two records at one distance, the second
\* of the normalizer output first among them, and a farther record after
C11_Witness ==
  /\ LiveDerived
  /\ Len(filteredStores) = 3
  /\ filteredStores[1].id = "b" /\ filteredStores[2].id = "a"
  /\ filteredStores[1].distance = filteredStores[2].distance
  /\ filteredStores[2].distance < filteredStores[3].distance
\* C12: in every committed state the result set is the derivation from the
\* current store set, filters, reference point, radius and tracking mode.
C12_ResultIsCurrentDerivation == ~Stale

\* a startWatchingPosition call gets past its guards and its permission
\* request: tracking starts
StartCompletes ==
  \/ ResumeStart
  \/ StartWatchingPosition /\ watchIdRef = None /\ geoSupported /\ ~orientationPermissionApi

\* C13: a start of tracking from Static mode leaves both filters empty, no
\* store selected, isWatching true and followMode 'center', whatever the
\* filters and the selection were.
C13_StartResetsFilters ==
  [][(~isWatching /\ StartCompletes)
       => /\ filterCity' = "" /\ filterArea' = ""
          /\ selectedStore' = None
          /\ isWatching'
          /\ followMode' = "center"]_vars

\* C13 witness: tracking has just started over a loaded store set, and
\* nothing but the start has written the filters since
C13_Witness ==
  /\ isWatching /\ watchIdRef # None
  /\ Len(allStores) > 0
  /\ userLocation = None
  /\ filterCity = "" /\ filterArea = ""
  /\ selectedStore = None
  /\ followMode = "center"

\* C14: while isWatching is true both filters are empty.
C14_LiveFiltersEmpty == isWatching => (filterCity = "" /\ filterArea = "")
\* the distance from the reference point to the k-th record of allStores
DistTo(k) ==
  getDistance(Val(userLocation).lat, Val(userLocation).lng, allStores[k].lat, allStores[k].lng)

\* C15: stopWatchingPosition sets isWatching false; with a known reference
\* point and a non-empty store set it sets the filters to the city and area
\* of a store at the least distance from the reference point, and otherwise
\* to DEFAULT_CITY and DEFAULT_AREA.
C15_StopSetsNearestRegion ==
  [][StopWatchingPosition
       => /\ ~isWatching'
          /\ IF userLocation # None /\ Len(allStores) > 0
             THEN \E k \in 1..Len(allStores) :
                    /\ \A j \in 1..Len(allStores) : DistTo(k) <= DistTo(j)
                    /\ filterCity' = allStores[k].city
                    /\ filterArea' = allStores[k].area
             ELSE filterCity' = DEFAULT_CITY /\ filterArea' = DEFAULT_AREA]_vars

\* C15 witness: no one-shot request was answered, so the reference point
\* came from a watch; tracking is over and the filters are the pair of the
\* store nearest to it, which is not the fallback pair
C15_Witness ==
  /\ ~isWatching
  /\ Len(oneShots) = 2
  /\ userLocation # None
  /\ Len(allStores) = 2
  /\ \A j \in 1..Len(allStores) : DistTo(2) <= DistTo(j)
  /\ filterCity = allStores[2].city /\ filterArea = allStores[2].area
  /\ filterCity # DEFAULT_CITY

\* C16: with a reference point and a non-empty store set, the lookup gives
\* the city and area of the first record of allStores among those at the
\* least distance from the reference point.
C16_NearestFirstOccurrence ==
  [][(Lookup /\ userLocation # None /\ Len(allStores) > 0)
       => \E k \in 1..Len(allStores) :
            /\ \A j \in 1..Len(allStores) : DistTo(k) <= DistTo(j)
            /\ \A j \in 1..(k - 1) : DistTo(k) < DistTo(j)
            /\ filterCity' = allStores[k].city
            /\ filterArea' = allStores[k].area]_vars

\* C16 witness: two records at the least distance, in different regions;
\* the lookup has written the pair of the one that comes first
C16_Witness ==
  /\ userLocation # None
  /\ Len(allStores) = 3
  /\ allStores[1] = FarD /\ allStores[2] = NearB /\ allStores[3] = NearA
  /\ DistTo(2) = DistTo(3) /\ DistTo(2) < DistTo(1)
  /\ filterCity = NearB.city /\ filterArea = NearB.area

\* C17: stopWatchingPosition leaves followMode 'center' when the reference
\* point is known and 'none' when it is not, and leaves no store selected.
C17_StopLockAndSelection ==
  [][StopWatchingPosition
       => /\ followMode' = IF userLocation' # None THEN "center" ELSE "none"
          /\ selectedStore' = None]_vars

\* C17 witness: no one-shot request was answered, so the reference point
\* came from a watch; tracking is over with every watch cleared, the camera
\* is locked on the reference point and no store is selected
C17_Witness ==
  /\ ~isWatching /\ watchIdRef = None /\ activeWatches = {}
  /\ pendingStarts = 0
  /\ Len(oneShots) = 2
  /\ userLocation # None
  /\ followMode = "center"
  /\ selectedStore = None
  /\ isLeafletLoaded /\ camTarget # None
  /\ Val(camTarget).lat = Val(userLocation).lat
\* a location failure: the error callback of a watch, or a start on a
\* browser without navigator.geolocation
LocationFailure ==
  \/ \E id \in activeWatches, kind \in WatchErrorKinds : WatchError(id, kind)
  \/ StartWatchingPosition /\ watchIdRef = None /\ ~geoSupported

\* C18: every location failure leaves isWatching false, the filters at
\* DEFAULT_CITY and DEFAULT_AREA and a location message in error, and starts
\* no watch and no getCurrentPosition request.
C18_FailureFallsBackToStatic ==
  [][LocationFailure
       => /\ ~isWatching'
          /\ filterCity' = DEFAULT_CITY /\ filterArea' = DEFAULT_AREA
          /\ error' \notin {"", ERR_LOAD}
          /\ activeWatches' \subseteq activeWatches
          /\ Len(oneShots') <= Len(oneShots)
          /\ pendingStarts' = pendingStarts]_vars

\* a location failure of one kind
FailureOfKind(kind) ==
  IF kind = "Unsupported"
  THEN StartWatchingPosition /\ watchIdRef = None /\ ~geoSupported
  ELSE \E id \in activeWatches : WatchError(id, kind)

\* C19: a location failure of each kind puts a message in error, and the
\* messages of two different kinds are different.
C19_DistinctFailureMessages ==
  [][\A kind \in FailureKinds :
       FailureOfKind(kind)
         => /\ LocationMessage(kind) # None
            /\ error' = Val(LocationMessage(kind))
            /\ \A other \in FailureKinds \ {kind} :
                 LocationMessage(other) # LocationMessage(kind)]_vars

\* an event of the location side that writes error, and a data-load outcome
LocationEvent == StartWatchingPosition \/ ResumeStart \/ LocationFailure
DataLoadOutcome ==
  \/ \E cause \in FetchFailures : FetchFail(cause)
  \/ \E raw \in Datasets : FetchResolve(raw)

\* C20: a location event leaves a displayed data-load error in place, and a
\* data-load outcome leaves a displayed location error in place.
C20_ErrorsDoNotOverwrite ==
  [][/\ (LocationEvent /\ error = ERR_LOAD) => error' = ERR_LOAD
     /\ (DataLoadOutcome /\ error = ERR_UNSUPPORTED) => error' = ERR_UNSUPPORTED]_vars
\* C21: a failed load is followed by another fetch (the retry ceiling is at
\* least one): after the first failure a fetch is outstanding again.
C21_FailureIsRetried ==
  [][(\E cause \in FetchFailures : FetchFail(cause)) => fetchState' = "pending"]_vars

\* C22: a fetch that rejects, answers a non-2xx status or a body that does
\* not parse leaves error set, allStores empty and loading false; a 2xx
\* answer with a body that parses leaves allStores the normalizer output
\* for that body and loading false.
C22_LoadOutcomes ==
  [][/\ (\E cause \in FetchFailures : FetchFail(cause))
          => (error' = ERR_LOAD /\ allStores' = <<>> /\ ~loading')
     /\ \A raw \in Datasets :
          FetchResolve(raw) => (allStores' = flattenStoreData(raw) /\ ~loading')]_vars

\* C23: the render of an empty result set leaves error as it was.
C23_EmptyResultIsNoError ==
  [][(Rerender /\ filteredStores' = <<>>) => error' = error]_vars

\* C23 witness: Live, a loaded store set, a known reference point and no
\* store within the radius: the empty result is rendered and error is empty
C23_Witness ==
  /\ Flushed
  /\ isWatching /\ userLocation # None
  /\ Len(allStores) > 0
  /\ filteredStores = <<>>
  /\ error = ""

\* the entries of a body in data order, and the accept rule as claimed: an
\* entry with a numeric lat, a numeric lng and a non-empty name (every lat
\* and lng of a RawStore is a number, 0 included)
ClaimAccepts(s) == "lat" \in DOMAIN s /\ s.name # ""
NamesOf(seq) == [i \in 1..Len(seq) |-> seq[i].name]

\* C24: the normalizer output holds exactly the entries with a numeric lat,
\* a numeric lng and a non-empty name, in data order.
C24_AcceptRule ==
  [][\A raw \in NormBodies :
       (FetchResolve(raw) /\ ~Throws(raw))
         => NamesOf(allStores') = NamesOf(SelectSeq(ConcatCities(raw, 1), ClaimAccepts))]_vars

\* C25: the ids of the records of the normalizer output are pairwise
\* distinct.
C25_UniqueIds ==
  [][\A raw \in NormBodies :
       FetchResolve(raw)
         => \A i, j \in 1..Len(allStores') :
              i # j => allStores'[i].id # allStores'[j].id]_vars

\* a body without the subregions whose data is not an array and without
\* the regions that are not objects
ArraysOnly(nested) ==
  LET IsObject(city) == "areas" \in DOMAIN city
      cities == SelectSeq(nested, IsObject)
  IN [i \in 1..Len(cities) |->
        [key |-> cities[i].key, areas |-> SelectSeq(cities[i].areas, IsArrayData)]]

\* C26: the normalizer never throws (the load does not end in its catch
\* branch), and its output is the output for the data arrays alone: a
\* subregion whose data is missing or not an array gives no record.
C26_NormalizerNeverFails ==
  [][\A raw \in NormBodies :
       FetchResolve(raw)
         => /\ error' = error
            /\ allStores' = flattenStoreData(ArraysOnly(raw))]_vars
\* C27: a region selection sets filterCity to the chosen value and
\* filterArea to '', and no region or subregion selection happens while
\* isWatching is true.
C27_RegionSelect ==
  [][/\ \A city \in Cities \cup {""} :
          HandleCityChange(city) => (filterCity' = city /\ filterArea' = "")
     /\ isWatching => /\ ~(\E city \in Cities \cup {""} : HandleCityChange(city))
                      /\ ~(\E area \in Areas \cup {""} : HandleAreaChange(area))]_vars

\* C27 witness: no position was ever known and the filters are a region
\* other than the default one with no subregion: a region was selected
C27_Witness ==
  /\ ~isWatching /\ userLocation = None
  /\ Len(oneShots) = 2
  /\ filterCity = "NewTaipei" /\ filterArea = ""
  /\ followMode = "none"

\* C28: a store selection sets selectedStore to the store clicked and
\* followMode to 'none'.
C28_StoreSelect ==
  [][\A i \in 1..Len(filteredStores) :
       HandleStoreSelect(i)
         => (selectedStore' = Some(filteredStores[i]) /\ followMode' = "none")]_vars

\* C28 witness: a store of the Live result set is selected, the camera Free
C28_Witness ==
  /\ isWatching /\ userLocation # None
  /\ selectedStore # None /\ HasDistance(Val(selectedStore))
  /\ followMode = "none"

\* C29: the follow / compass button takes followMode from 'center' to
\* 'compass' (the reference point known) and from 'compass' to 'center',
\* and leaves isWatching and both filters as they were.
C29_ModeToggle ==
  [][HandleModeToggle
       => /\ (followMode = "center" /\ userLocation # None) => followMode' = "compass"
          /\ followMode = "compass" => followMode' = "center"
          /\ isWatching' = isWatching
          /\ filterCity' = filterCity /\ filterArea' = filterArea]_vars

\* C29 witness: followMode is 'compass', which only the button sets, from
\* 'center' with the reference point known
C29_Witness ==
  /\ followMode = "compass"
  /\ userLocation # None
  /\ isLeafletLoaded /\ camTarget # None
  /\ Val(camTarget) = Target(Val(userLocation).lat, Val(userLocation).lng, MAX_ZOOM)

C30_Case ==
  /\ isLeafletLoaded
  /\ selectedStore = None
  /\ followMode = "none"
  /\ isWatching
  /\ userLocation # None

\* C30: Live mode, no store selected, camera-lock Free and a known reference
\* point: the camera target is the reference point, the Live result set
\* being empty or not.
C30_LiveFreeCentresOnReference ==
  C30_Case => /\ camTarget # None
              /\ Val(camTarget).lat = Val(userLocation).lat
              /\ Val(camTarget).lng = Val(userLocation).lng


\* the coordinate pairs of a state: the reference point and every store
Points ==
  {<<allStores[i].lat, allStores[i].lng>> : i \in 1..Len(allStores)}
    \cup (IF userLocation = None THEN {}
          ELSE {<<Val(userLocation).lat, Val(userLocation).lng>>})

\* C31: getDistance is symmetric in its two points and is 0 when both points
\* are equal: for every pair of points of a state the distance is the same
\* in both directions, the distance of a point to itself is 0, and the
\* distance the Live derivation attached to a record (reference point to
\* store) is the distance from the store to the reference point.
C31_DistanceSymmetricZero ==
  /\ \A p \in Points, q \in Points :
        getDistance(p[1], p[2], q[1], q[2]) = getDistance(q[1], q[2], p[1], p[2])
  /\ \A p \in Points : getDistance(p[1], p[2], p[1], p[2]) = 0
  /\ LiveDerived =>
        \A i \in 1..Len(filteredStores) :
          filteredStores[i].distance
            = getDistance(filteredStores[i].lat, filteredStores[i].lng,
                          Val(userLocation).lat, Val(userLocation).lng)

\* a Live result whose records lie north and south of the reference point
\* at distances above 0, next to two records that share their coordinates
C31_Witness ==
  /\ LiveDerived
  /\ \E i \in 1..Len(filteredStores) :
        /\ filteredStores[i].lat > Val(userLocation).lat
        /\ filteredStores[i].distance > 0
  /\ \E i \in 1..Len(filteredStores) :
        /\ filteredStores[i].lat < Val(userLocation).lat
        /\ filteredStores[i].distance > 0
  /\ \E i, j \in 1..Len(allStores) :
        /\ i # j
        /\ allStores[i].lat = allStores[j].lat
        /\ allStores[i].lng = allStores[j].lng


\* C33: isWatching is true if and only if a geolocation watch created by
\* this client is still active (created by watchPosition and not cleared).
C33_WatchingIffActiveWatch == isWatching <=> activeWatches # {}


\* C34: whenever a store is selected and the result set is the one the
\* current inputs derive, the selected store is a member (by id) of the
\* result set.
C34_SelectionInResultSet ==
  (selectedStore # None /\ Flushed /\ ~Stale) =>
    \E i \in 1..Len(filteredStores) : filteredStores[i].id = Val(selectedStore).id


\* C35: the arrival of a watch fix sets the reference point to the fix and
\* changes nothing else but the heading, and the heading only when the fix
\* carries one: the filters, the selection, isWatching (TrackingMode),
\* followMode (camera-lock), the radius, the store set, loading and error
\* are unchanged.
C35_FixFrame ==
  [][\A id \in 1..MaxWatches, loc \in FixLocations, h \in FixHeadings :
       WatchFix(id, loc, h) =>
         /\ userLocation' = Some(loc)
         /\ (h = None => userHeading' = userHeading)
         /\ UNCHANGED <<filterCity, filterArea, selectedStore, isWatching, followMode,
                        proximityRadius, allStores, loading, error>>]_vars

\* tracking with the wider radius, camera-lock Free and a selected store
\* whose distance was taken from another reference point than the current
\* one: a fix arrived after the selection
C35_Witness ==
  /\ isWatching /\ activeWatches # {} /\ userLocation # None
  /\ selectedStore # None
  /\ followMode = "none"
  /\ proximityRadius = 3000
  /\ userHeading = Some(90)
  /\ HasDistance(Val(selectedStore))
  /\ Val(selectedStore).distance
       # getDistance(Val(userLocation).lat, Val(userLocation).lng,
                     Val(selectedStore).lat, Val(selectedStore).lng)


\* C36: camera-lock is CompassFollow only in states where a reference point
\* is known: followMode is never 'compass' while userLocation is null.
C36_CompassNeedsReference == followMode = "compass" => userLocation # None

\* CompassFollow with a known reference point while not tracking: no watch
\* is active and no start is outstanding
C36_Witness ==
  /\ followMode = "compass"
  /\ userLocation # None
  /\ ~isWatching
  /\ activeWatches = {}
  /\ pendingStarts = 0


\* the fetch of loadData settles: it resolves with a body or fails
FetchSettles ==
  \/ \E raw \in Datasets : FetchResolve(raw)
  \/ \E cause \in FetchFailures : FetchFail(cause)

\* C37: the data load terminates: the step in which the fetch resolves or
\* rejects ends with loading false, whether the load succeeded or failed,
\* loading is false in every state after the load is done, and once false it
\* stays false.
C37_LoadingEnds ==
  [][/\ FetchSettles => ~loading'
     /\ fetchState' = "done" => ~loading'
     /\ ~loading => ~loading']_vars

\* the load is done and left no store (an empty body, or a failure whose
\* message a later start cleared), and tracking has started and produced a
\* reference point since: loading is still false
C37_Witness ==
  /\ fetchState = "done"
  /\ ~loading
  /\ allStores = <<>>
  /\ error = ""
  /\ isWatching /\ userLocation # None /\ followMode = "compass"


\* the requests for GET /api/stores in hand
StoresRequests ==
  {id \in 1..MaxRequests : conns[id].stage # "idle" /\ conns[id].path = STORES_PATH}

\* the request of slot id has exactly one response, sent by the stores
\* handler: 500 with the read error when the data file cannot be read, 500
\* with the format error when its text is not valid JSON, and otherwise 200
\* with the parsed JSON
AnsweredByStoresHandler(id) ==
  /\ Len(conns[id].responses) = 1
  /\ conns[id].responses[1].by = "stores"
  /\ conns[id].responses[1].status
       = (IF dataFile.readable /\ ParseJSON(dataFile.text) # None
          THEN STATUS_OK ELSE STATUS_ERROR)
  /\ conns[id].responses[1].body
       = (IF ~dataFile.readable THEN READ_ERROR
          ELSE IF ParseJSON(dataFile.text) = None THEN PARSE_ERROR
          ELSE Stringify(Val(ParseJSON(dataFile.text))))

\* C32 as stated: every GET /api/stores request gets exactly one response,
\* the one of the stores handler, and the catch-all route never answers it.
C32_EveryStoresRequest ==
  \A id \in StoresRequests :
    /\ conns[id].stage # "done" => conns[id].responses = <<>>
    /\ conns[id].stage = "done" => AnsweredByStoresHandler(id)
    /\ \A k \in 1..Len(conns[id].responses) : conns[id].responses[k].by # "catchAll"

\* C32: every GET /api/stores request gets exactly one response, and the
\* catch-all route never answers it.  A request that the JSON body parser
\* passes on (no body, or a body that parses) is answered by the stores
\* handler: 500 with an error body when the data file cannot be read, 500
\* with an error body when its text is not valid JSON, otherwise 200 with the
\* parsed JSON.  A request whose JSON body does not parse is answered 400 by
\* the body parser and never reaches the handler.
C32_StoresRequestAnswered ==
  \A id \in StoresRequests :
    /\ conns[id].stage # "done" => conns[id].responses = <<>>
    /\ (conns[id].stage = "done" /\ conns[id].body # "malformed")
         => AnsweredByStoresHandler(id)
    /\ (conns[id].stage = "done" /\ conns[id].body = "malformed")
         => conns[id].responses = <<Response(STATUS_BAD_REQUEST, "Bad Request", "json")>>
    /\ \A k \in 1..Len(conns[id].responses) : conns[id].responses[k].by # "catchAll"

\* with a data file that is not valid JSON, one request for /api/stores has
\* been answered by the stores handler while a request for a client-side
\* route has been answered by the catch-all
C32_Witness ==
  /\ dataFile.readable /\ ParseJSON(dataFile.text) = None
  /\ \E id \in StoresRequests :
        /\ conns[id].stage = "done"
        /\ conns[id].responses = <<Response(STATUS_ERROR, PARSE_ERROR, "stores")>>
  /\ \E id \in 1..MaxRequests :
        /\ conns[id].stage = "done"
        /\ conns[id].responses = <<Response(STATUS_OK, INDEX_HTML, "catchAll")>>

====
